---------------------------- MODULE Spec2Model ----------------------------
(***************************************************************************)
(* VPNRotationManager (src/vpn_rotation_manager.py) as a state machine.    *)
(*                                                                         *)
(* Three threads share the manager object and the host: the main thread    *)
(* (start(), then idle; the SIGTERM/SIGINT handler runs stop() on it), the *)
(* health-check worker and the rotation worker.  The source takes no lock, *)
(* so the threads interleave.  One step of a thread is one blocking        *)
(* external command (openvpn, kill, curl, the ip/iptables batch of a       *)
(* routing switch) together with the Python statements around it; a local  *)
(* snapshot of shared state that the source keeps across statements        *)
(* (available_vpns) is taken in a step of its own.                         *)
(*                                                                         *)
(* The host is modelled by what the commands do to it: tunnel processes    *)
(* and their PID files per interface, whether an interface has an address, *)
(* and the kernel state the ip/iptables commands read and write.           *)
(***************************************************************************)
EXTENDS Integers, FiniteSets, Sequences, TLC

\* ------------------------------------------------------------------ bounds

\* Size of the endpoint catalogue (self.vpn_configs); endpoints are 1..NumEndpoints.
NumEndpoints == 3
\* The clock of SpecRegistry runs from 0 to MaxTime (one tick is half the
\* blacklist duration).
MaxTime == 3
\* Tunnel processes that die out of band (not killed by the manager) in one run.
MaxDeaths == 1
\* Counted kernel entries (fwmark rules, OUTPUT jumps, rt_tables lines)
\* saturate here: RuleCap stands for "RuleCap or more".
RuleCap == 2

\* ------------------------------------------------------- program constants

\* self.blacklist_duration, in clock ticks (24 h = 2 ticks of 12 h).
blacklist_duration == 2

Endpoints == 1..NumEndpoints
None == 0
NoTime == -1
PRIMARY == "tun0"
SECONDARY == "tun1"
STAGING == "tun2"
Ifaces == {PRIMARY, SECONDARY, STAGING}
NoIface == "none"
Threads == {"main", "health", "rotation"}

VARIABLES
    \* the manager object
    running, current_primary, current_secondary, blacklisted_vpns,
    \* the clock (time.time())
    now,
    \* the host: tunnel process per interface (its endpoint), its PID file,
    \* whether the interface exists with an address
    proc, pidfile, ifup,
    \* the kernel: default route of table vpn_primary, number of fwmark-100
    \* rules, MARK rules in chain VPN_ROUTING, the chain, jumps from OUTPUT,
    \* vpn_primary lines in rt_tables, and whether the kernel refuses a
    \* duplicate "ip rule add"
    route, fwRules, markRules, chain, jumps, rtLines, ruleExcl,
    \* control state and locals of the three threads
    pc, primary_vpn, new_secondary, new_vpn, available_vpns, conn, prepRet, emRet,
    \* history: interface of the last successful switch, primary and
    \* secondary recorded when the running transition began, time of each
    \* endpoint's last blacklisting, number of out-of-band deaths
    binding, prePrimary, preSecondary, blTime, deaths

vars == <<running, current_primary, current_secondary, blacklisted_vpns, now,
          proc, pidfile, ifup, route, fwRules, markRules, chain, jumps, rtLines,
          ruleExcl, pc, primary_vpn, new_secondary, new_vpn, available_vpns,
          conn, prepRet, emRet, binding, prePrimary, preSecondary, blTime, deaths>>

mgrVars == <<running, current_primary, current_secondary, blacklisted_vpns>>
tunVars == <<proc, pidfile, ifup, route>>
kernVars == <<fwRules, markRules, chain, jumps, rtLines>>
localVars == <<primary_vpn, new_secondary, new_vpn, available_vpns, conn, prepRet, emRet>>
histVars == <<binding, prePrimary, preSecondary, blTime, deaths>>

Min(a, b) == IF a < b THEN a ELSE b

\* ------------------------------------------------------- BlacklistRegistry

\* A variant of the comparison of line 92, with <= for <.
StillBlacklistedInclusive(since, current_time) ==
    current_time - since <= blacklist_duration

\* line 92: current_time - self.blacklisted_vpns[vpn_name] < self.blacklist_duration
StillBlacklisted(since, current_time) ==
    current_time - since < blacklist_duration

\* _get_available_vpns: the names it returns ...
AvailableVpns(bl, current_time) ==
    {n \in Endpoints : ~(bl[n] # NoTime /\ StillBlacklisted(bl[n], current_time))}

\* ... and the blacklist it leaves (expired entries deleted, line 96).
EvictExpired(bl, current_time) ==
    [n \in Endpoints |->
        IF bl[n] # NoTime /\ ~StillBlacklisted(bl[n], current_time)
        THEN NoTime ELSE bl[n]]

\* _blacklist_vpn(name): record the current time, overwriting any entry.
BlacklistVpn(bl, name) == [bl EXCEPT ![name] = now]

\* -------------------------------------------------------- TunnelController

Host == [proc |-> proc, pidfile |-> pidfile, ifup |-> ifup, route |-> route]

SetHost(h) ==
    /\ proc' = h.proc
    /\ pidfile' = h.pidfile
    /\ ifup' = h.ifup
    /\ route' = h.route

\* A variant of _disconnect_vpn that removes the PID file only when kill succeeded.
DisconnectVpnKeepStale(h, i) ==
    IF h.pidfile[i] /\ h.proc[i] # None
    THEN [proc |-> [h.proc EXCEPT ![i] = None],
          pidfile |-> [h.pidfile EXCEPT ![i] = FALSE],
          ifup |-> [h.ifup EXCEPT ![i] = FALSE],
          route |-> IF h.route = i THEN NoIface ELSE h.route]
    ELSE h

\* _disconnect_vpn(i): with a PID file, kill the process it names and remove
\* the file; without one, nothing.  A killed tunnel takes its interface with
\* it, and the kernel drops the routes through a vanished interface.
DisconnectVpn(h, i) ==
    IF h.pidfile[i]
    THEN [proc |-> [h.proc EXCEPT ![i] = None],
          pidfile |-> [h.pidfile EXCEPT ![i] = FALSE],
          ifup |-> [h.ifup EXCEPT ![i] = FALSE],
          route |-> IF h.route = i THEN NoIface ELSE h.route]
    ELSE h

\* _test_vpn_connectivity(i) can pass only through an interface that is up
\* (curl --interface i); whether it then passes is the network's choice.
ProbeCanPass(i) == ifup[i]

\* -------------------------------------------------------- RoutingSwitcher

\* _switch_primary_routing(i): the five commands in order, stopping at the
\* first that fails.
\*   iptables -F VPN_ROUTING        fails without the chain
\*   iptables -A VPN_ROUTING ...    one MARK rule
\*   ip rule add fwmark 100 ...     needs vpn_primary in rt_tables; a kernel
\*                                  with exclusive rules refuses a duplicate,
\*                                  another adds one more rule
\*   ip route add default dev i ... fails when the table has a default route
\*                                  or interface i does not exist
\*   ip route flush cache
SwitchPrimaryRouting(i) ==
    IF ~chain
    THEN [ok |-> FALSE, markRules |-> markRules, fwRules |-> fwRules, route |-> route]
    ELSE IF rtLines = 0 \/ (ruleExcl /\ fwRules > 0)
    THEN [ok |-> FALSE, markRules |-> 1, fwRules |-> fwRules, route |-> route]
    ELSE IF route # NoIface \/ ~ifup[i]
    THEN [ok |-> FALSE, markRules |-> 1,
          fwRules |-> Min(fwRules + 1, RuleCap), route |-> route]
    ELSE [ok |-> TRUE, markRules |-> 1,
          fwRules |-> Min(fwRules + 1, RuleCap), route |-> i]

\* The kernel after a switch attempt s; binding remembers a successful one.
ApplySwitch(s, i) ==
    /\ markRules' = s.markRules
    /\ fwRules' = s.fwRules
    /\ route' = s.route
    /\ binding' = IF s.ok THEN i ELSE binding

\* _setup_routing_tables, lines 106-119: the echo appends one more
\* '100 vpn_primary' line to rt_tables, iptables -N creates the chain or fails
\* on an existing one (a warning, nothing else), iptables -A OUTPUT appends
\* one more jump to the chain.
SetupRoutingTables ==
    [rtLines |-> Min(rtLines + 1, RuleCap),
     chain |-> TRUE,
     jumps |-> Min(jumps + 1, RuleCap)]

\* ------------------------------------------------------------------- Init

NoConn == [iface |-> NoIface, vpn |-> None, ok |-> "none", fail |-> "none"]

Init ==
    /\ running = FALSE
    /\ current_primary = None
    /\ current_secondary = None
    /\ blacklisted_vpns = [n \in Endpoints |-> NoTime]
    /\ now = 0
    /\ proc = [i \in Ifaces |-> None]
    /\ pidfile = [i \in Ifaces |-> FALSE]
    /\ ifup = [i \in Ifaces |-> FALSE]
    /\ route = NoIface
    /\ fwRules = 0
    /\ markRules = 0
    /\ chain = FALSE
    /\ jumps = 0
    /\ rtLines = 0
    /\ ruleExcl \in BOOLEAN
    /\ pc = [t \in Threads |-> IF t = "main" THEN "m_start" ELSE "unstarted"]
    /\ primary_vpn = None
    /\ new_secondary = None
    /\ new_vpn = None
    /\ available_vpns = [t \in Threads |-> {}]
    /\ conn = [t \in Threads |-> NoConn]
    /\ prepRet = "none"
    /\ emRet = "none"
    /\ binding = NoIface
    /\ prePrimary = None
    /\ preSecondary = None
    /\ blTime = [n \in Endpoints |-> NoTime]
    /\ deaths = 0

Goto(t, l) == pc' = [pc EXCEPT ![t] = l]

\* ------------------------------------------------------------ _connect_vpn

\* Call _connect_vpn(vpn, i) from thread t; it continues at ok or at fail.
CallConnect(t, vpn, i, ok, fail) ==
    /\ conn' = [conn EXCEPT ![t] = [iface |-> i, vpn |-> vpn, ok |-> ok, fail |-> fail]]
    /\ Goto(t, "c_launch")

\* _connect_vpn returned False.  At each of its four calls the caller then
\* leaves the enclosing block: start() goes on to prepare a secondary,
\* _prepare_new_secondary returns False, the rotation cycle ends.  The frame
\* that is left loses its locals.
ConnectFailed(t) ==
    /\ Goto(t, conn[t].fail)
    /\ conn' = [conn EXCEPT ![t] = NoConn]
    /\ new_secondary' = IF conn[t].iface = SECONDARY THEN None ELSE new_secondary
    /\ prepRet' = IF conn[t].iface = SECONDARY THEN "none" ELSE prepRet
    /\ new_vpn' = IF t = "rotation" THEN None ELSE new_vpn
    /\ prePrimary' = IF t = "rotation" THEN None ELSE prePrimary
    /\ primary_vpn' = IF t = "main" /\ conn[t].iface = PRIMARY THEN None ELSE primary_vpn
    /\ UNCHANGED <<available_vpns, emRet, binding, preSecondary, blTime, deaths>>

\* lines 126-141: stop any existing connection on this interface, then
\* launch openvpn --daemon --writepid.  It either fails to start (return
\* False) or runs in the background with its PID file written.
ConnectLaunch(t) ==
    /\ pc[t] = "c_launch"
    /\ LET h == DisconnectVpn(Host, conn[t].iface)
       IN \/ /\ SetHost(h)
             /\ ConnectFailed(t)
          \/ /\ SetHost([h EXCEPT !.proc[conn[t].iface] = conn[t].vpn,
                                  !.pidfile[conn[t].iface] = TRUE])
             /\ Goto(t, "c_wait")
             /\ UNCHANGED <<localVars, histVars>>
    /\ UNCHANGED <<mgrVars, now, kernVars, ruleExcl>>

\* lines 144-151: poll _check_vpn_interface for 30 s.  The interface comes up
\* (return True) or the wait runs out (return False, the process left running).
ConnectWait(t) ==
    /\ pc[t] = "c_wait"
    /\ \/ /\ proc[conn[t].iface] # None
          /\ ifup' = [ifup EXCEPT ![conn[t].iface] = TRUE]
          /\ Goto(t, conn[t].ok)
          /\ conn' = [conn EXCEPT ![t] = NoConn]
          /\ UNCHANGED <<primary_vpn, new_secondary, new_vpn, available_vpns,
                         prepRet, emRet, histVars>>
       \/ /\ ~ifup[conn[t].iface]
          /\ ConnectFailed(t)
          /\ UNCHANGED ifup
    /\ UNCHANGED <<mgrVars, now, proc, pidfile, route, kernVars, ruleExcl>>

\* -------------------------------------------------- _prepare_new_secondary

\* Enter _prepare_new_secondary from thread t, to return to label ret, with
\* the blacklist bl: line 277 takes the snapshot of the available endpoints.
PrepEnter(t, ret, bl) ==
    /\ available_vpns' = [available_vpns EXCEPT ![t] = AvailableVpns(bl, now)]
    /\ blacklisted_vpns' = EvictExpired(bl, now)
    /\ prepRet' = ret
    /\ Goto(t, "p_select")

\* lines 280-289: drop the current primary, return False when nothing is
\* left, else pick one at random and connect it on tun1.
PrepSelect(t) ==
    /\ pc[t] = "p_select"
    /\ LET cands == IF current_primary # None
                    THEN available_vpns[t] \ {current_primary}
                    ELSE available_vpns[t]
       IN IF cands = {}
          THEN /\ Goto(t, prepRet)
               /\ prepRet' = "none"
               /\ UNCHANGED <<new_secondary, conn>>
          ELSE \E n \in cands :
               /\ new_secondary' = n
               /\ CallConnect(t, n, SECONDARY, "p_probe", prepRet)
               /\ UNCHANGED prepRet
    /\ available_vpns' = [available_vpns EXCEPT ![t] = {}]
    /\ UNCHANGED <<mgrVars, now, tunVars, kernVars, ruleExcl, primary_vpn,
                   new_vpn, emRet, histVars>>

\* lines 293-298: probe tun1; record the secondary and return True, or
\* blacklist the candidate.
PrepProbe(t) ==
    /\ pc[t] = "p_probe"
    /\ \/ /\ ProbeCanPass(SECONDARY)
          /\ current_secondary' = new_secondary
          /\ Goto(t, prepRet)
          /\ prepRet' = "none"
          /\ new_secondary' = None
          /\ UNCHANGED <<blacklisted_vpns, blTime>>
       \/ /\ blacklisted_vpns' = BlacklistVpn(blacklisted_vpns, new_secondary)
          /\ blTime' = [blTime EXCEPT ![new_secondary] = now]
          /\ Goto(t, "p_fail_disc")
          /\ UNCHANGED <<current_secondary, prepRet, new_secondary>>
    /\ UNCHANGED <<running, current_primary, now, tunVars, kernVars, ruleExcl,
                   primary_vpn, new_vpn, available_vpns, conn, emRet,
                   binding, prePrimary, preSecondary, deaths>>

\* lines 299-301: disconnect tun1 and return False.
PrepFailDisconnect(t) ==
    /\ pc[t] = "p_fail_disc"
    /\ SetHost(DisconnectVpn(Host, SECONDARY))
    /\ Goto(t, prepRet)
    /\ prepRet' = "none"
    /\ new_secondary' = None
    /\ UNCHANGED <<mgrVars, now, kernVars, ruleExcl, primary_vpn, new_vpn,
                   available_vpns, conn, emRet, histVars>>

\* ------------------------------------------------------------------ start

\* lines 367-382: running = True, _setup_routing_tables (each echo appends a
\* line, iptables -N creates the chain unless it exists, iptables -A appends
\* one more jump), the availability check, the choice of the primary.
MainStart ==
    /\ pc["main"] = "m_start"
    /\ running' = TRUE
    /\ rtLines' = SetupRoutingTables.rtLines
    /\ chain' = SetupRoutingTables.chain
    /\ jumps' = SetupRoutingTables.jumps
    /\ blacklisted_vpns' = EvictExpired(blacklisted_vpns, now)
    /\ LET avail == AvailableVpns(blacklisted_vpns, now)
       IN IF Cardinality(avail) < 2
          THEN /\ Goto("main", "exited")
               /\ UNCHANGED <<primary_vpn, conn>>
          ELSE \E n \in avail :
               /\ primary_vpn' = n
               /\ CallConnect("main", n, PRIMARY, "m_probe", "m_prep")
    /\ UNCHANGED <<current_primary, current_secondary, now, tunVars, fwRules,
                   markRules, ruleExcl, new_secondary, new_vpn, available_vpns,
                   prepRet, emRet, histVars>>

\* lines 383-390: probe tun0; on failure blacklist and return False (the
\* process ends: no worker was started).
MainProbe ==
    /\ pc["main"] = "m_probe"
    /\ \/ /\ ProbeCanPass(PRIMARY)
          /\ Goto("main", "m_switch")
          /\ UNCHANGED <<blacklisted_vpns, blTime, primary_vpn>>
       \/ /\ blacklisted_vpns' = BlacklistVpn(blacklisted_vpns, primary_vpn)
          /\ blTime' = [blTime EXCEPT ![primary_vpn] = now]
          /\ primary_vpn' = None
          /\ Goto("main", "exited")
    /\ UNCHANGED <<running, current_primary, current_secondary, now, tunVars,
                   kernVars, ruleExcl, new_secondary, new_vpn, available_vpns,
                   conn, prepRet, emRet, binding, prePrimary, preSecondary, deaths>>

\* lines 384-385 and 393: record the primary, switch routing to tun0 (the
\* result is not looked at), enter _prepare_new_secondary.
MainSwitch ==
    /\ pc["main"] = "m_switch"
    /\ current_primary' = primary_vpn
    /\ primary_vpn' = None
    /\ ApplySwitch(SwitchPrimaryRouting(PRIMARY), PRIMARY)
    /\ PrepEnter("main", "m_launch", blacklisted_vpns)
    /\ UNCHANGED <<running, current_secondary, now, proc, pidfile, ifup, chain,
                   jumps, rtLines, ruleExcl, new_secondary, new_vpn, conn, emRet,
                   prePrimary, preSecondary, blTime, deaths>>

\* line 393 after a failed connect of the primary: start() goes on.
MainPrepare ==
    /\ pc["main"] = "m_prep"
    /\ PrepEnter("main", "m_launch", blacklisted_vpns)
    /\ UNCHANGED <<running, current_primary, current_secondary, now, tunVars,
                   kernVars, ruleExcl, primary_vpn, new_secondary, new_vpn, conn,
                   emRet, histVars>>

\* lines 396-407: start both workers; the main thread idles.
MainLaunch ==
    /\ pc["main"] = "m_launch"
    /\ pc' = [t \in Threads |->
                IF t = "main" THEN "m_idle"
                ELSE IF t = "health" THEN "h_top" ELSE "r_top"]
    /\ UNCHANGED <<mgrVars, now, tunVars, kernVars, ruleExcl, localVars, histVars>>

\* ------------------------------------------------------------------- stop

StopLabels == {"s_disc1", "s_disc2", "s_teardown"}

\* SIGTERM or SIGINT: the handler runs stop() on the main thread, whatever
\* the main thread was doing (lines 47-51): running = False and the first
\* disconnect, of tun0 (lines 413-418).
Signal ==
    /\ pc["main"] \notin StopLabels \cup {"exited"}
    /\ running' = FALSE
    /\ SetHost(DisconnectVpn(Host, PRIMARY))
    /\ Goto("main", "s_disc1")
    /\ conn' = [conn EXCEPT !["main"] = NoConn]
    /\ primary_vpn' = None
    /\ new_secondary' = IF pc["health"] = "unstarted" THEN None ELSE new_secondary
    /\ prepRet' = IF pc["health"] = "unstarted" THEN "none" ELSE prepRet
    /\ available_vpns' = [available_vpns EXCEPT !["main"] = {}]
    /\ UNCHANGED <<current_primary, current_secondary, blacklisted_vpns, now,
                   kernVars, ruleExcl, new_vpn, emRet, histVars>>

\* lines 417-418: disconnect tun1, then tun2.
StopDisconnect ==
    /\ pc["main"] \in {"s_disc1", "s_disc2"}
    /\ IF pc["main"] = "s_disc1"
       THEN /\ SetHost(DisconnectVpn(Host, SECONDARY))
            /\ Goto("main", "s_disc2")
       ELSE /\ SetHost(DisconnectVpn(Host, STAGING))
            /\ Goto("main", "s_teardown")
    /\ UNCHANGED <<mgrVars, now, kernVars, ruleExcl, localVars, histVars>>

\* lines 421-422 and 51: iptables -F empties the chain, iptables -X deletes
\* it unless OUTPUT still jumps to it; then sys.exit(0) ends the process,
\* its daemon threads and their locals.
StopTeardown ==
    /\ pc["main"] = "s_teardown"
    /\ markRules' = IF chain THEN 0 ELSE markRules
    /\ chain' = IF jumps = 0 THEN FALSE ELSE chain
    /\ pc' = [t \in Threads |->
                IF t = "main" THEN "exited"
                ELSE IF pc[t] = "unstarted" THEN "unstarted" ELSE "dead"]
    /\ primary_vpn' = None
    /\ new_secondary' = None
    /\ new_vpn' = None
    /\ available_vpns' = [t \in Threads |-> {}]
    /\ conn' = [t \in Threads |-> NoConn]
    /\ prepRet' = "none"
    /\ emRet' = "none"
    /\ prePrimary' = None
    /\ preSecondary' = None
    /\ UNCHANGED <<mgrVars, now, tunVars, fwRules, jumps, rtLines, ruleExcl,
                   binding, blTime, deaths>>

\* ------------------------------------------------------------ environment

Alive == pc["main"] # "exited"

\* A tunnel process dies by itself: its interface goes, the kernel drops the
\* routes through it, the PID file stays behind.
TunnelDies(i) ==
    /\ Alive
    /\ deaths < MaxDeaths
    /\ proc[i] # None
    /\ proc' = [proc EXCEPT ![i] = None]
    /\ ifup' = [ifup EXCEPT ![i] = FALSE]
    /\ route' = IF route = i THEN NoIface ELSE route
    /\ deaths' = deaths + 1
    /\ UNCHANGED <<mgrVars, now, pidfile, kernVars, ruleExcl, pc, localVars,
                   binding, prePrimary, preSecondary, blTime>>

\* --------------------------------------------------- _health_check_worker

\* lines 229-235 and 251-255: leave the loop when running is false.  With a
\* primary recorded, probe tun0; when the probe fails, blacklist the recorded
\* primary and enter _emergency_switch, which returns False when no
\* secondary is recorded and goes on to switch routing otherwise.
HealthCheckPrimary ==
    /\ pc["health"] = "h_top"
    /\ IF ~running
       THEN /\ Goto("health", "h_done")
            /\ UNCHANGED <<blacklisted_vpns, blTime, emRet, preSecondary>>
       ELSE \/ /\ current_primary = None \/ ProbeCanPass(PRIMARY)
               /\ Goto("health", "h_sec")
               /\ UNCHANGED <<blacklisted_vpns, blTime, emRet, preSecondary>>
            \/ /\ current_primary # None
               /\ blacklisted_vpns' = BlacklistVpn(blacklisted_vpns, current_primary)
               /\ blTime' = [blTime EXCEPT ![current_primary] = now]
               /\ preSecondary' = current_secondary
               /\ IF current_secondary = None
                  THEN /\ emRet' = "false"
                       /\ Goto("health", "h_sec")
                  ELSE /\ Goto("health", "h_em_switch")
                       /\ UNCHANGED emRet
    /\ UNCHANGED <<running, current_primary, current_secondary, now, tunVars,
                   kernVars, ruleExcl, primary_vpn, new_secondary, new_vpn,
                   available_vpns, conn, prepRet, binding, prePrimary, deaths>>

\* lines 258-263 and 273: switch routing to tun1; on success promote the
\* secondary to primary and clear the secondary, else return False.
HealthEmergencySwitch ==
    /\ pc["health"] = "h_em_switch"
    /\ LET s == SwitchPrimaryRouting(SECONDARY)
       IN /\ ApplySwitch(s, SECONDARY)
          /\ IF s.ok
             THEN /\ current_primary' = current_secondary
                  /\ current_secondary' = None
                  /\ emRet' = "true"
                  /\ Goto("health", "h_em_disc")
             ELSE /\ emRet' = "false"
                  /\ Goto("health", "h_sec")
                  /\ UNCHANGED <<current_primary, current_secondary>>
    /\ UNCHANGED <<running, blacklisted_vpns, now, proc, pidfile, ifup, chain,
                   jumps, rtLines, ruleExcl, primary_vpn, new_secondary, new_vpn,
                   available_vpns, conn, prepRet, prePrimary, preSecondary,
                   blTime, deaths>>

\* lines 266-271: disconnect tun0, then _prepare_new_secondary, then return
\* True.
HealthEmergencyDisconnect ==
    /\ pc["health"] = "h_em_disc"
    /\ SetHost(DisconnectVpn(Host, PRIMARY))
    /\ PrepEnter("health", "h_sec", blacklisted_vpns)
    /\ UNCHANGED <<running, current_primary, current_secondary, now, kernVars,
                   ruleExcl, primary_vpn, new_secondary, new_vpn, conn, emRet,
                   histVars>>

\* lines 238-243, reached past the primary's check (emRet holds what
\* _emergency_switch returned, if it ran).  With a secondary recorded, probe
\* tun1; when the probe fails, blacklist the recorded secondary and call
\* _prepare_new_secondary.  Then sleep.
HealthCheckSecondary ==
    /\ pc["health"] = "h_sec"
    /\ emRet' = "none"
    /\ preSecondary' = None
    /\ \/ /\ current_secondary = None \/ ProbeCanPass(SECONDARY)
          /\ Goto("health", "h_top")
          /\ UNCHANGED <<blacklisted_vpns, blTime, available_vpns, prepRet>>
       \/ /\ current_secondary # None
          /\ blTime' = [blTime EXCEPT ![current_secondary] = now]
          /\ PrepEnter("health", "h_top",
                       BlacklistVpn(blacklisted_vpns, current_secondary))
    /\ UNCHANGED <<running, current_primary, current_secondary, now, tunVars,
                   kernVars, ruleExcl, primary_vpn, new_secondary, new_vpn, conn,
                   binding, prePrimary, deaths>>

\* ------------------------------------------------------- _rotation_worker

\* A rotation cycle ends: back to the sleep of line 308, the locals dropped.
RotationCycleEnds ==
    /\ Goto("rotation", "r_top")
    /\ new_vpn' = None
    /\ prePrimary' = None

\* lines 305-316: after the sleep, leave when running is false, else start
\* a cycle by taking the snapshot of the available endpoints.
RotationTop ==
    /\ pc["rotation"] = "r_top"
    /\ IF ~running
       THEN /\ Goto("rotation", "r_done")
            /\ UNCHANGED <<blacklisted_vpns, available_vpns, prePrimary>>
       ELSE /\ available_vpns' = [available_vpns EXCEPT
                                    !["rotation"] = AvailableVpns(blacklisted_vpns, now)]
            /\ blacklisted_vpns' = EvictExpired(blacklisted_vpns, now)
            /\ prePrimary' = current_primary
            /\ Goto("rotation", "r_select")
    /\ UNCHANGED <<running, current_primary, current_secondary, now, tunVars,
                   kernVars, ruleExcl, primary_vpn, new_secondary, new_vpn, conn,
                   prepRet, emRet, binding, preSecondary, blTime, deaths>>

\* lines 319-336: drop the recorded primary and secondary from the snapshot;
\* skip the cycle when nothing is left, else pick one and connect it on tun2.
RotationSelect ==
    /\ pc["rotation"] = "r_select"
    /\ LET cands == available_vpns["rotation"] \ {current_primary, current_secondary}
       IN IF cands = {}
          THEN /\ RotationCycleEnds
               /\ UNCHANGED conn
          ELSE \E n \in cands :
               /\ new_vpn' = n
               /\ CallConnect("rotation", n, STAGING, "r_probe", "r_top")
               /\ UNCHANGED prePrimary
    /\ available_vpns' = [available_vpns EXCEPT !["rotation"] = {}]
    /\ UNCHANGED <<mgrVars, now, tunVars, kernVars, ruleExcl, primary_vpn,
                   new_secondary, prepRet, emRet, binding, preSecondary, blTime,
                   deaths>>

\* lines 337 and 357-358: probe tun2; when it fails, blacklist the candidate.
RotationProbe ==
    /\ pc["rotation"] = "r_probe"
    /\ \/ /\ ProbeCanPass(STAGING)
          /\ Goto("rotation", "r_switch2")
          /\ UNCHANGED <<blacklisted_vpns, blTime>>
       \/ /\ blacklisted_vpns' = BlacklistVpn(blacklisted_vpns, new_vpn)
          /\ blTime' = [blTime EXCEPT ![new_vpn] = now]
          /\ Goto("rotation", "r_pf_disc")
    /\ UNCHANGED <<running, current_primary, current_secondary, now, tunVars,
                   kernVars, ruleExcl, localVars, binding, prePrimary,
                   preSecondary, deaths>>

\* A variant of the step below that disconnects tun0 where the code
\* disconnects tun2.
RotationProbeFailDisconnectPrimary ==
    /\ pc["rotation"] = "r_pf_disc"
    /\ SetHost(DisconnectVpn(Host, PRIMARY))
    /\ RotationCycleEnds
    /\ UNCHANGED <<mgrVars, now, kernVars, ruleExcl, primary_vpn, new_secondary,
                   available_vpns, conn, prepRet, emRet, binding, preSecondary,
                   blTime, deaths>>

\* line 359: after the failed probe, disconnect tun2; the cycle ends.
RotationProbeFailDisconnect ==
    /\ pc["rotation"] = "r_pf_disc"
    /\ SetHost(DisconnectVpn(Host, STAGING))
    /\ RotationCycleEnds
    /\ UNCHANGED <<mgrVars, now, kernVars, ruleExcl, primary_vpn, new_secondary,
                   available_vpns, conn, prepRet, emRet, binding, preSecondary,
                   blTime, deaths>>

\* line 339: switch routing to tun2.
RotationSwitchStaging ==
    /\ pc["rotation"] = "r_switch2"
    /\ LET s == SwitchPrimaryRouting(STAGING)
       IN /\ ApplySwitch(s, STAGING)
          /\ Goto("rotation", IF s.ok THEN "r_disc0" ELSE "r_sf_disc")
    /\ UNCHANGED <<mgrVars, now, proc, pidfile, ifup, chain, jumps, rtLines,
                   ruleExcl, localVars, prePrimary, preSecondary, blTime, deaths>>

\* lines 355-356: the switch failed; disconnect tun2; the cycle ends.
RotationSwitchFailDisconnect ==
    /\ pc["rotation"] = "r_sf_disc"
    /\ SetHost(DisconnectVpn(Host, STAGING))
    /\ RotationCycleEnds
    /\ UNCHANGED <<mgrVars, now, kernVars, ruleExcl, primary_vpn, new_secondary,
                   available_vpns, conn, prepRet, emRet, binding, preSecondary,
                   blTime, deaths>>

\* lines 341-342: disconnect tun0 when a primary is recorded.
RotationDisconnectPrimary ==
    /\ pc["rotation"] = "r_disc0"
    /\ SetHost(IF current_primary # None THEN DisconnectVpn(Host, PRIMARY) ELSE Host)
    /\ Goto("rotation", "r_disc2")
    /\ UNCHANGED <<mgrVars, now, kernVars, ruleExcl, localVars, histVars>>

\* lines 346-347: disconnect tun2, then connect the candidate on tun0.
RotationDisconnectStaging ==
    /\ pc["rotation"] = "r_disc2"
    /\ SetHost(DisconnectVpn(Host, STAGING))
    /\ CallConnect("rotation", new_vpn, PRIMARY, "r_switch0", "r_top")
    /\ UNCHANGED <<mgrVars, now, kernVars, ruleExcl, primary_vpn, new_secondary,
                   new_vpn, available_vpns, prepRet, emRet, histVars>>

\* lines 348-353: switch routing to tun0 (the result is not looked at),
\* record the candidate as primary, log the completion; the cycle ends.
RotationSwitchPrimary ==
    /\ pc["rotation"] = "r_switch0"
    /\ ApplySwitch(SwitchPrimaryRouting(PRIMARY), PRIMARY)
    /\ current_primary' = new_vpn
    /\ RotationCycleEnds
    /\ UNCHANGED <<running, current_secondary, blacklisted_vpns, now, proc,
                   pidfile, ifup, chain, jumps, rtLines, ruleExcl, primary_vpn,
                   new_secondary, available_vpns, conn, prepRet, emRet,
                   preSecondary, blTime, deaths>>

\* ------------------------------------------------------------------- Next

Main ==
    \/ MainStart
    \/ MainProbe
    \/ MainSwitch
    \/ MainPrepare
    \/ MainLaunch
    \/ Signal
    \/ StopDisconnect
    \/ StopTeardown

Connect == \E t \in Threads : ConnectLaunch(t) \/ ConnectWait(t)

Prepare == \E t \in {"main", "health"} : PrepSelect(t) \/ PrepProbe(t) \/ PrepFailDisconnect(t)

Health ==
    \/ HealthCheckPrimary
    \/ HealthEmergencySwitch
    \/ HealthEmergencyDisconnect
    \/ HealthCheckSecondary

Rotation ==
    \/ RotationTop
    \/ RotationSelect
    \/ RotationProbe
    \/ RotationProbeFailDisconnect
    \/ RotationSwitchStaging
    \/ RotationSwitchFailDisconnect
    \/ RotationDisconnectPrimary
    \/ RotationDisconnectStaging
    \/ RotationSwitchPrimary

Environment == \E i \in Ifaces : TunnelDies(i)

Next == Main \/ Connect \/ Prepare \/ Health \/ Rotation \/ Environment

\* The manager from construction on.  The clock stands still in Spec: a run
\* lies within one tick, so no blacklist entry expires in it.
Spec == Init /\ [][Next]_vars

\* ------------------------------------------------------ fair scheduling

\* The steps of each thread.  A thread that can take a step takes one in
\* the end: the main thread runs start() to its idle loop, each worker is a
\* thread of its own (lines 396-400) whose sleeps and commands all end.
MainThread ==
    \/ MainStart
    \/ MainProbe
    \/ MainSwitch
    \/ MainPrepare
    \/ MainLaunch
    \/ ConnectLaunch("main") \/ ConnectWait("main")
    \/ PrepSelect("main") \/ PrepProbe("main") \/ PrepFailDisconnect("main")

HealthThread ==
    \/ Health
    \/ ConnectLaunch("health") \/ ConnectWait("health")
    \/ PrepSelect("health") \/ PrepProbe("health") \/ PrepFailDisconnect("health")

RotationThread ==
    \/ Rotation
    \/ ConnectLaunch("rotation") \/ ConnectWait("rotation")

\* The manager under fair scheduling of its threads; signals and tunnel
\* deaths may or may not come.
SpecLive ==
    /\ Init
    /\ [][Next]_vars
    /\ WF_vars(MainThread)
    /\ WF_vars(HealthThread)
    /\ WF_vars(RotationThread)

\* ------------------------------------------- the blacklist under the clock

\* The registry alone, its two operations called in any order while the
\* clock runs: _blacklist_vpn(n), _get_available_vpns() (the list it returns
\* is kept in available_vpns["main"]), and a tick of time.time().
RegistryBlacklist(n) ==
    /\ blacklisted_vpns' = BlacklistVpn(blacklisted_vpns, n)
    /\ blTime' = [blTime EXCEPT ![n] = now]
    /\ UNCHANGED <<running, current_primary, current_secondary, now, tunVars,
                   kernVars, ruleExcl, pc, localVars, binding, prePrimary,
                   preSecondary, deaths>>

RegistryGetAvailable ==
    /\ available_vpns' = [available_vpns EXCEPT
                            !["main"] = AvailableVpns(blacklisted_vpns, now)]
    /\ blacklisted_vpns' = EvictExpired(blacklisted_vpns, now)
    /\ UNCHANGED <<running, current_primary, current_secondary, now, tunVars,
                   kernVars, ruleExcl, pc, primary_vpn, new_secondary, new_vpn,
                   conn, prepRet, emRet, histVars>>

Tick ==
    /\ now < MaxTime
    /\ now' = now + 1
    /\ UNCHANGED <<mgrVars, tunVars, kernVars, ruleExcl, pc, localVars, histVars>>

NextRegistry ==
    \/ \E n \in Endpoints : RegistryBlacklist(n)
    \/ RegistryGetAvailable
    \/ Tick

SpecRegistry == Init /\ [][NextRegistry]_vars

\* ------------------------------------------- the host across several runs

\* The routing state of the host, which outlives the process, under the
\* three operations that change it, run in any order as successive runs of
\* the program do: _setup_routing_tables, _switch_primary_routing(i), the
\* teardown of stop(); meanwhile tunnel interfaces come and go.
HostSetup ==
    /\ rtLines' = SetupRoutingTables.rtLines
    /\ chain' = SetupRoutingTables.chain
    /\ jumps' = SetupRoutingTables.jumps
    /\ UNCHANGED <<mgrVars, now, tunVars, fwRules, markRules, ruleExcl, pc,
                   localVars, histVars>>

HostSwitch(i) ==
    /\ ApplySwitch(SwitchPrimaryRouting(i), i)
    /\ UNCHANGED <<mgrVars, now, proc, pidfile, ifup, chain, jumps, rtLines,
                   ruleExcl, pc, localVars, prePrimary, preSecondary, blTime,
                   deaths>>

HostTeardown ==
    /\ markRules' = IF chain THEN 0 ELSE markRules
    /\ chain' = IF jumps = 0 THEN FALSE ELSE chain
    /\ UNCHANGED <<mgrVars, now, tunVars, fwRules, jumps, rtLines, ruleExcl, pc,
                   localVars, histVars>>

HostLink(i) ==
    /\ ifup' = [ifup EXCEPT ![i] = ~ifup[i]]
    /\ route' = IF ifup[i] /\ route = i THEN NoIface ELSE route
    /\ UNCHANGED <<mgrVars, now, proc, pidfile, kernVars, ruleExcl, pc,
                   localVars, histVars>>

NextHost ==
    \/ HostSetup
    \/ \E i \in Ifaces : HostSwitch(i)
    \/ HostTeardown
    \/ \E i \in Ifaces : HostLink(i)

SpecHost == Init /\ [][NextHost]_vars

\* ----------------------------------------------------------------- claims

\* C1: no endpoint runs on more than one of tun0, tun1, tun2 at a time, and
\* the endpoint recorded as primary is never also recorded as secondary.
NoDuplicateEndpoints ==
    /\ \A i, j \in Ifaces : (i # j /\ proc[i] # None) => proc[i] # proc[j]
    /\ current_primary # None => current_primary # current_secondary

\* The tunnel on interface i died by itself: its PID file is left behind.
LostOutOfBand(i) == pidfile[i] /\ proc[i] = None

\* C2: while the manager runs with a primary recorded, once a routing switch has succeeded, the
\* default route of vpn_primary goes through the interface of the last
\* successful switch and that interface is up -- unless its tunnel was lost
\* out of band: the manager never disconnects the tunnel it routes through.
RoutingTargetLive ==
    (running /\ current_primary # None /\ binding # NoIface) =>
        \/ route = binding /\ ifup[binding]
        \/ LostOutOfBand(binding)

\* The health-check worker is inside an emergency switch or a
\* prepare-secondary; the rotation worker is inside a rotation cycle.
HealthInTransition ==
    pc["health"] \in {"h_em_switch", "h_em_disc", "p_select", "c_launch",
                      "c_wait", "p_probe", "p_fail_disc"}

RotationInCycle ==
    pc["rotation"] \in {"r_select", "c_launch", "c_wait", "r_probe", "r_pf_disc",
                        "r_switch2", "r_sf_disc", "r_disc0", "r_disc2", "r_switch0"}

\* C3: the two workers are never both between the first and the last step
\* of a state-changing transition.
MutualExclusion == ~(HealthInTransition /\ RotationInCycle)

\* C4: while the manager runs, when _emergency_switch has returned True, the recorded primary is
\* the endpoint that was secondary when the switch began, and the default
\* route of vpn_primary goes through the interface that endpoint's tunnel
\* runs on.
EmergencyPostCondition ==
    (running /\ pc["health"] = "h_sec" /\ emRet = "true") =>
        /\ current_primary = preSecondary
        /\ route # NoIface
        /\ proc[route] = current_primary

\* C5: while the manager runs, the step that completes a rotation cycle
\* records a primary that differs from the primary recorded when the cycle
\* began.
RotationFreshness ==
    [][(running /\ pc["rotation"] = "r_switch0" /\ pc'["rotation"] = "r_top")
        => current_primary' # prePrimary]_vars

\* C8: while the rotation worker sleeps between cycles, no tunnel process
\* runs on tun2.
StagingTransient ==
    pc["rotation"] = "r_top" => proc[STAGING] = None

\* C10: the health-check worker goes on to the routing switch of an
\* emergency only with tun1 up; an emergency that finds tun1 down changes
\* neither the route, the fwmark rules, the recorded primary nor the tunnel
\* on tun0.
EmergencyRequiresLiveSecondary ==
    [][/\ (pc["health"] = "h_top" /\ pc'["health"] = "h_em_switch")
            => ifup[SECONDARY]
       /\ (pc["health"] = "h_em_switch" /\ pc'["health"] \in {"h_em_disc", "h_sec"}
           /\ ~ifup[SECONDARY])
            => /\ UNCHANGED <<route, fwRules, current_primary>>
               /\ proc'[PRIMARY] = proc[PRIMARY]]_vars

\* C6: an endpoint last blacklisted at time T is left out of the available
\* list exactly while T <= now < T + blacklist_duration; its entry stays in
\* the dictionary until then, and a read at or after T + blacklist_duration
\* lists the endpoint and removes the entry.  An endpoint never blacklisted
\* is listed.
BlacklistTTL ==
    \A n \in Endpoints :
        /\ blTime[n] = NoTime => n \in AvailableVpns(blacklisted_vpns, now)
        /\ blTime[n] # NoTime =>
            /\ n \notin AvailableVpns(blacklisted_vpns, now)
                 <=> (blTime[n] <= now /\ now < blTime[n] + blacklist_duration)
            /\ now < blTime[n] + blacklist_duration
                 => blacklisted_vpns[n] = blTime[n]
            /\ now >= blTime[n] + blacklist_duration
                 => EvictExpired(blacklisted_vpns, now)[n] = NoTime

\* A read at exactly T + blacklist_duration has listed the endpoint and
\* removed its entry.
BlacklistExpiredAtTTL ==
    \E n \in Endpoints :
        /\ blTime[n] # NoTime
        /\ now = blTime[n] + blacklist_duration
        /\ blacklisted_vpns[n] = NoTime
        /\ n \in available_vpns["main"]

\* C7: _disconnect_vpn leaves no process and no PID file on its interface,
\* changes nothing on an interface that has neither, and applied twice in
\* a row has the effect of being applied once.
DisconnectIdempotent ==
    \A i \in Ifaces :
        LET once == DisconnectVpn(Host, i)
        IN /\ once.proc[i] = None
           /\ ~once.pidfile[i]
           /\ (~pidfile[i] /\ proc[i] = None) => once = Host
           /\ DisconnectVpn(once, i) = once

\* The rotation worker (line 342) and stop() (line 417) have both
\* disconnected tun0 with no launch on tun0 in between.
DisconnectedTwice ==
    /\ pc["rotation"] = "r_disc2"
    /\ pc["main"] = "s_disc1"
    /\ current_primary # None
    /\ ~pidfile[PRIMARY]
    /\ proc[PRIMARY] = None

\* C9: when the candidate of a rotation cycle has connected on tun2 and its
\* probe fails, the candidate is blacklisted at the current time and tun2 is
\* disconnected, while the recorded primary and secondary, the tunnels on
\* tun0 and tun1, the route and the fwmark rules stay as they were.
RotationProbeFailureKeepsPrimary ==
    [][/\ (pc["rotation"] = "r_probe" /\ pc'["rotation"] = "r_pf_disc")
            => /\ blacklisted_vpns'[new_vpn] = now
               /\ UNCHANGED <<current_primary, current_secondary, proc, pidfile,
                              ifup, route, fwRules, markRules, binding>>
       /\ (pc["rotation"] = "r_pf_disc" /\ pc'["rotation"] = "r_top")
            => /\ proc'[STAGING] = None
               /\ ~pidfile'[STAGING]
               /\ \A i \in {PRIMARY, SECONDARY} :
                     /\ proc'[i] = proc[i]
                     /\ pidfile'[i] = pidfile[i]
                     /\ ifup'[i] = ifup[i]
               /\ UNCHANGED <<current_primary, current_secondary, route,
                              fwRules, markRules, binding>>]_vars

\* The probe of the candidate on tun2 has failed with a primary in service.
RotationProbeFailed ==
    /\ pc["rotation"] = "r_pf_disc"
    /\ new_vpn # None
    /\ blacklisted_vpns[new_vpn] = now
    /\ proc[STAGING] = new_vpn
    /\ current_primary # None
    /\ proc[PRIMARY] = current_primary
    /\ route = PRIMARY

\* An endpoint that is neither blacklisted nor in a slot.
SpareEndpoint(n) ==
    /\ blacklisted_vpns[n] = NoTime
    /\ n \notin {current_primary, current_secondary}
    /\ \A i \in Ifaces : proc[i] # n

\* C11: under fair scheduling, whenever the manager runs with its workers
\* started, a primary but no secondary recorded and a spare endpoint, a
\* secondary is recorded in the end (or the manager is stopped).
SecondaryHeals ==
    (/\ running
     /\ pc["health"] = "h_top"
     /\ current_primary # None
     /\ current_secondary = None
     /\ \E n \in Endpoints : SpareEndpoint(n))
        ~> (current_secondary # None \/ ~running)

\* C12: when start() launches the workers, a primary is recorded, and
\* unless its tunnel died by itself meanwhile, that endpoint's tunnel is up on
\* tun0 and the default route of vpn_primary goes through tun0.
StartupEstablishesPrimary ==
    [][(pc["main"] = "m_launch" /\ pc'["main"] = "m_idle")
        => /\ current_primary # None
           /\ \/ LostOutOfBand(PRIMARY)
              \/ /\ proc[PRIMARY] = current_primary
                 /\ ifup[PRIMARY]
                 /\ route = PRIMARY]_vars

\* C13: once stop() has completed, no tunnel process runs on tun0, tun1 or
\* tun2 and the chain VPN_ROUTING is gone.
ShutdownLeavesNothing ==
    (pc["main"] = "exited" /\ ~running) =>
        /\ \A i \in Ifaces : proc[i] = None
        /\ ~chain

\* C14: however often the routing setup has run, rt_tables holds at most
\* one vpn_primary line and OUTPUT at most one jump to VPN_ROUTING.
SetupIdempotent == rtLines <= 1 /\ jumps <= 1

\* C15: in a rotation cycle that switched routing to tun2, the step that
\* disconnects tun2 is taken only with the candidate's tunnel up on tun0 and
\* routing switched to tun0.
RotationStepOrdering ==
    [][(pc["rotation"] = "r_disc2" /\ pc'["rotation"] = "c_launch")
        => /\ proc[PRIMARY] = new_vpn
           /\ ifup[PRIMARY]
           /\ binding = PRIMARY]_vars

\* C16: when _connect_vpn returns False for the candidate of
\* _prepare_new_secondary (on tun1) or of a rotation cycle (on tun2), the
\* candidate is blacklisted and no process or PID file is left on that
\* interface as the operation returns.
ConnectFailureRemediated ==
    [][\A t \in Threads :
        (/\ pc[t] \in {"c_launch", "c_wait"}
         /\ conn[t].iface \in {SECONDARY, STAGING}
         /\ pc'[t] = conn[t].fail)
        => /\ blacklisted_vpns'[conn[t].vpn] # NoTime
           /\ proc'[conn[t].iface] = None
           /\ ~pidfile'[conn[t].iface]]_vars

\* C17: when the health check finds the probe of the recorded secondary
\* failing, the secondary is cleared and tun1 disconnected as
\* _prepare_new_secondary is entered; and when that call returns without
\* having recorded a new secondary, no secondary is recorded.
SecondaryFailureClears ==
    [][/\ (pc["health"] = "h_sec" /\ pc'["health"] = "p_select")
            => /\ current_secondary' = None
               /\ proc'[SECONDARY] = None
       /\ (/\ pc["health"] \in {"p_select", "c_launch", "c_wait", "p_fail_disc"}
           /\ prepRet = "h_top"
           /\ pc'["health"] = "h_top")
            => current_secondary' = None]_vars

\* The step is a call of _switch_primary_routing(i): at startup (line 385),
\* in a rotation cycle (lines 339 and 348) or in an emergency (line 258).
SwitchStep(i) ==
    \/ i = PRIMARY /\ pc["main"] = "m_switch" /\ pc'["main"] = "p_select"
    \/ i = PRIMARY /\ pc["rotation"] = "r_switch0" /\ pc'["rotation"] = "r_top"
    \/ i = STAGING /\ pc["rotation"] = "r_switch2"
                   /\ pc'["rotation"] \in {"r_disc0", "r_sf_disc"}
    \/ i = SECONDARY /\ pc["health"] = "h_em_switch"
                     /\ pc'["health"] \in {"h_em_disc", "h_sec"}

\* C18: a call of _switch_primary_routing(i) made while vpn_primary has a
\* default route through another interface that is up, with interface i up,
\* leaves the default route through i and exactly one fwmark rule.
SwitchReplacesBinding ==
    [][\A i \in Ifaces :
        (/\ SwitchStep(i)
         /\ route \notin {NoIface, i}
         /\ ifup[route]
         /\ ifup[i])
        => /\ route' = i
           /\ fwRules' = 1]_vars

\* No thread is inside a transition: start() has finished and both workers
\* are between two operations.
Quiescent ==
    /\ running
    /\ pc["main"] = "m_idle"
    /\ ~HealthInTransition
    /\ ~RotationInCycle

\* C19 (for the primary): with no transition in progress, the tunnel of the
\* recorded primary runs on tun0, the interface the health check probes for
\* it, unless that tunnel died by itself.
RecordedMatchesRunning ==
    (Quiescent /\ current_primary # None)
        => (proc[PRIMARY] = current_primary \/ LostOutOfBand(PRIMARY))

\* C20 (for the primary): while the manager runs and no rotation cycle is
\* in progress, the health check blacklists the recorded primary only after
\* the probe of an interface that runs this endpoint's tunnel, or ran it
\* until the tunnel died by itself.
OnlyFailedBlacklisted ==
    [][(/\ running
        /\ ~RotationInCycle
        /\ pc["health"] = "h_top"
        /\ (pc'["health"] = "h_em_switch" \/ emRet' = "false"))
        => (proc[PRIMARY] = current_primary \/ LostOutOfBand(PRIMARY))]_vars

=============================================================================
